---- MODULE Spec2Model ----
(***************************************************************************)
(* Model of the video sharing backend of src/main.py: the five document    *)
(* collections (user, video, comment, like, subscription) and the request  *)
(* handlers that read and write them.                                      *)
(*                                                                         *)
(* A handler is an operator from the store and the request to the store    *)
(* after it and the response; the action of the handler commits that       *)
(* store.  get_video and like_video are also split into their store        *)
(* operations, so that several requests can interleave.  Handlers whose    *)
(* answer depends on an order the store leaves open return the set of the  *)
(* answers they may give.                                                  *)
(*                                                                         *)
(* Identifiers travel as strings.  A string that ObjectId() accepts is 24  *)
(* hexadecimal digits, read without regard to letter case, so every        *)
(* ObjectId has several spellings; str(ObjectId) is the lower-case one.    *)
(* The model keeps two spellings of each id (lower and upper case), one    *)
(* malformed string and the absent header.                                 *)
(***************************************************************************)
EXTENDS Integers, FiniteSets, Sequences, TLC

\* ------------------------------------------------------------------ bounds
MaxVideos == 1
MaxLikes == 2
MaxSubs == 2
MaxComments == 1
MaxGets == 2
MaxTime == 2
MaxPosts == 3
MaxLikeCalls == 2

\* ------------------------------------------------------------------ state
VARIABLES
    user,           \* db["user"]: a set of documents
    video,          \* db["video"]
    comment,        \* db["comment"]
    like,           \* db["like"]
    subscription,   \* db["subscription"]
    calls,          \* the get_video requests: where each stands, and its locals
    like_calls,     \* the like_video requests run step by step, likewise
    clock           \* the time datetime.utcnow() reads

vars == <<user, video, comment, like, subscription, calls, like_calls, clock>>

\* The store as one value, as the handlers take and return it.
Db == [user |-> user, video |-> video, comment |-> comment,
       like |-> like, subscription |-> subscription]

\* ------------------------------------------------------------ identifiers
\* An ObjectId: a tag and a rank that together name one document.  ObjectId()
\* returns an id that no document of the collection has.
Oid(c, n) == <<c, n>>
UnknownOid == Oid("none", 0)

Usernames == {"alice", "bob"}
\* Usernames are unique, so no more users than usernames ever exist.
UserOids == {Oid("user", n) : n \in 1..Cardinality(Usernames)}
VideoOids == {Oid("video", n) : n \in 1..MaxVideos}

\* Strings a client can send as an id: a spelling of an ObjectId, a string
\* ObjectId() rejects, or nothing (header absent or empty).
Hex(oid, upper) == [kind |-> "hex", oid |-> oid, upper |-> upper]
Malformed == [kind |-> "bad", oid |-> UnknownOid, upper |-> FALSE]
NoHeader == [kind |-> "none", oid |-> UnknownOid, upper |-> FALSE]
Spellings(oids) == {Hex(o, b) : o \in oids, b \in BOOLEAN}
\* The ids requests carry: every spelling of every id a document can have,
\* a valid id of no document, and a malformed one.
Headers == Spellings(UserOids) \cup {Hex(UnknownOid, FALSE), Malformed, NoHeader}
ChannelIds == Spellings(UserOids) \cup {Hex(UnknownOid, FALSE), Malformed}
VideoIds == Spellings(VideoOids) \cup {Hex(UnknownOid, FALSE), Malformed}

\* str(ObjectId): the lower-case spelling.
StrOf(oid) == Hex(oid, FALSE)

\* ObjectId(id_str) succeeds on 24 hex digits of either case.
ValidId(id_str) == id_str.kind = "hex"

\* objid: the ObjectId a valid string denotes (its case is lost).
objid(id_str) == id_str.oid

None == [_id |-> UnknownOid]

\* find_one: one of the documents that match the filter, None when none does.
FindOne(hits) == IF hits = {} THEN None ELSE CHOOSE d \in hits : TRUE

ById(id_str, d) == d._id = objid(id_str)

\* The rank of a new document under tag c: the least one no document of coll has.
NewId(coll, c) ==
    Oid(c, CHOOSE n \in 1..(Cardinality(coll) + 1) :
               /\ \A d \in coll : d._id # Oid(c, n)
               /\ \A m \in 1..(n - 1) : \E d \in coll : d._id = Oid(c, m))

\* ------------------------------------------------------------- responses
\* The outcome of a handler: the store after it, the HTTP status, and the
\* number the response body carries (a count; 0 when it carries none).
\* A response with a JSON body: a record (a JSON object), a sequence of them
\* (a list), or null.
null == <<>>
Reply(db, status, ret, body) == [db |-> db, status |-> status, ret |-> ret, body |-> body]
Result(db, status, ret) == Reply(db, status, ret, null)

\* HTTPException(status_code, detail): the status and the message of an error.
HTTPException(db, status_code, detail) == Reply(db, status_code, 0, [detail |-> detail])

\* ------------------------------------------------------------- time stamps
\* datetime.utcnow()
utcnow == clock

\* datetime.isoformat(): the text of a time
isoformat(t) == [iso |-> t]

\* dict.pop(key, None): the document without the field
Pop(doc, key) == [k \in DOMAIN doc \ {key} |-> doc[k]]

\* to_str_id: "_id" becomes "id", the string of the ObjectId; times become
\* their text; every other field stays as it is.
to_str_id(doc) ==
    IF doc = None THEN null
    ELSE [k \in (DOMAIN doc \ {"_id"}) \cup {"id"} |->
             IF k = "id" THEN StrOf(doc._id)
             ELSE IF k \in {"created_at", "updated_at"} THEN isoformat(doc[k])
             ELSE doc[k]]

\* ------------------------------------------------------ identity resolver
\* get_current_user_id: 401 without a header, objid's 400 on a malformed one,
\* 401 when no user has that _id; otherwise the header string as it came.
get_current_user_id(db, x_user_id) ==
    IF x_user_id = NoHeader THEN [status |-> 401, user_id |-> x_user_id]
    ELSE IF ~ValidId(x_user_id) THEN [status |-> 400, user_id |-> x_user_id]
    ELSE IF FindOne({d \in db.user : ById(x_user_id, d)}) = None
         THEN [status |-> 401, user_id |-> x_user_id]
    ELSE [status |-> 200, user_id |-> x_user_id]

\* ------------------------------------------------------------ registration
Locals == {"a", "b"}
\* An e-mail address as typed: local part, and the domain in lower or upper case.
RawEmails == [local : Locals, upper : BOOLEAN]
\* EmailStr validation normalises the domain to lower case.
EmailStr(raw) == [raw EXCEPT !.upper = FALSE]
Passwords == {"pw"}
hash_password(password) == <<"bcrypt", password>>

\* UsernameTaken with the username lookup left out.
UsernameNeverTaken(db, username) == FALSE

EmailTaken(db, email) == FindOne({d \in db.user : d.email = email}) # None
UsernameTaken(db, username) == FindOne({d \in db.user : d.username = username}) # None

register(db, raw_email, username, password) ==
    LET email == EmailStr(raw_email)
    IN  IF EmailTaken(db, email) THEN Result(db, 400, 0)
        ELSE IF UsernameTaken(db, username) THEN Result(db, 400, 0)
        ELSE LET user_doc == [_id |-> NewId(db.user, "user"),
                              username |-> username,
                              email |-> email,
                              password_hash |-> hash_password(password),
                              subscriber_count |-> 0]
             IN  Reply([db EXCEPT !.user = @ \cup {user_doc}], 200, 0,
                       to_str_id(Pop(user_doc, "password_hash")))

\* ------------------------------------------------------------------- login
\* The passwords a login request may carry: the users' and one nobody has.
LoginPasswords == Passwords \cup {"guess"}

\* pwd_context.verify: whether the hash is one of the password
verify_password(password, hashed) == hashed = hash_password(password)

\* login that tells the caller which of the two checks failed
login_telling(db, raw_email, password) ==
    LET email == EmailStr(raw_email)
        found == FindOne({d \in db.user : d.email = email})
    IN  IF found = None THEN HTTPException(db, 404, "Unknown email")
        ELSE IF ~verify_password(password, found.password_hash)
             THEN HTTPException(db, 400, "Invalid credentials")
        ELSE Reply(db, 200, 0, to_str_id(Pop(found, "password_hash")))

login(db, raw_email, password) ==
    LET email == EmailStr(raw_email)
        found == FindOne({d \in db.user : d.email = email})
    IN  IF found = None THEN HTTPException(db, 400, "Invalid credentials")
        ELSE IF ~verify_password(password, found.password_hash)
             THEN HTTPException(db, 400, "Invalid credentials")
        ELSE Reply(db, 200, 0, to_str_id(Pop(found, "password_hash")))

\* ------------------------------------------------------------------ upload
upload_video(db, x_user_id) ==
    LET auth == get_current_user_id(db, x_user_id)
    IN  IF auth.status # 200 THEN Result(db, auth.status, 0)
        ELSE Result([db EXCEPT !.video = @ \cup {[_id |-> NewId(db.video, "video"),
                                                   user_id |-> auth.user_id,
                                                   views_count |-> 0,
                                                   likes_count |-> 0,
                                                   created_at |-> utcnow,
                                                   updated_at |-> utcnow]}],
                    200, 0)

\* ---------------------------------------------------------------- comments
Texts == {"nice"}

add_comment(db, video_id, text, x_user_id) ==
    LET auth == get_current_user_id(db, x_user_id)
    IN  IF auth.status # 200 THEN Result(db, auth.status, 0)
        ELSE IF ~ValidId(video_id) THEN Result(db, 400, 0)
        ELSE IF FindOne({d \in db.video : ById(video_id, d)}) = None THEN Result(db, 404, 0)
        ELSE Result([db EXCEPT !.comment = @ \cup {[_id |-> NewId(db.comment, "comment"),
                                                     video_id |-> video_id,
                                                     user_id |-> auth.user_id,
                                                     text |-> text,
                                                     created_at |-> utcnow]}],
                    200, 0)

\* ------------------------------------------------------------------- likes
Values == {1, -1}

\* The filter of the lookup of the caller's existing Like row.
LikeMatch(video_id, user_id, d) == d.video_id = video_id /\ d.user_id = user_id

\* The _id of a new Like row: one no row has.
NewLikeId(rows, video_id, user_id) ==
    NewId({d \in rows : LikeMatch(video_id, user_id, d)}, <<"like", video_id, user_id>>)

\* ToggleLike with the repeated value kept instead of deleted (a like that is
\* set, not toggled).
ToggleLikeKeep(rows, existing, video_id, user_id, value) ==
    IF existing # None
    THEN {IF d._id = existing._id THEN [d EXCEPT !.value = value] ELSE d : d \in rows}
    ELSE rows \cup {[_id |-> NewLikeId(rows, video_id, user_id),
                     video_id |-> video_id, user_id |-> user_id, value |-> value]}

\* ToggleLike with the repeated value removed by a delete of every row of
\* the video (the user left out of the filter).
ToggleLikeClear(rows, existing, video_id, user_id, value) ==
    IF existing # None
    THEN IF existing.value = value
         THEN {d \in rows : d.video_id # video_id}
         ELSE {IF d._id = existing._id THEN [d EXCEPT !.value = value] ELSE d : d \in rows}
    ELSE rows \cup {[_id |-> NewLikeId(rows, video_id, user_id),
                     video_id |-> video_id, user_id |-> user_id, value |-> value]}

\* The insert / delete / update of the toggle.
ToggleLike(rows, existing, video_id, user_id, value) ==
    IF existing # None
    THEN IF existing.value = value
         THEN {d \in rows : d._id # existing._id}
         ELSE {IF d._id = existing._id THEN [d EXCEPT !.value = value] ELSE d : d \in rows}
    ELSE rows \cup {[_id |-> NewLikeId(rows, video_id, user_id),
                     video_id |-> video_id, user_id |-> user_id, value |-> value]}

\* count_documents({"video_id": video_id, "value": 1})
CountLikes(rows, video_id) ==
    Cardinality({d \in rows : d.video_id = video_id /\ d.value = 1})

\* update_one({"_id": oid}, {"$set": {"likes_count": n}})
SetLikesCount(videos, oid, n) ==
    {IF d._id = oid THEN [d EXCEPT !.likes_count = n] ELSE d : d \in videos}

like_video(db, video_id, value, x_user_id) ==
    LET auth == get_current_user_id(db, x_user_id)
    IN  IF auth.status # 200 THEN Result(db, auth.status, 0)
        ELSE IF ~ValidId(video_id) THEN Result(db, 400, 0)
        ELSE IF FindOne({d \in db.video : ById(video_id, d)}) = None THEN Result(db, 404, 0)
        ELSE LET user_id == auth.user_id
                 existing == FindOne({d \in db.like : LikeMatch(video_id, user_id, d)})
                 rows == ToggleLike(db.like, existing, video_id, user_id, value)
                 likes_count == CountLikes(rows, video_id)
             IN  Result([db EXCEPT !.like = rows,
                                   !.video = SetLikesCount(@, objid(video_id), likes_count)],
                        200, likes_count)

\* ----------------------------------------------------------- subscriptions
\* The self-subscription test: the two strings, compared as they came.
IsSelf(channel_id, user_id) == channel_id = user_id

SubMatch(channel_id, user_id, d) == d.channel_id = channel_id /\ d.subscriber_id = user_id

NewSubId(rows, channel_id, user_id) ==
    NewId({d \in rows : SubMatch(channel_id, user_id, d)}, <<"subscription", channel_id, user_id>>)

\* ToggleSub with an existing row kept instead of deleted (a subscription
\* that is set, not toggled).
ToggleSubKeep(rows, existing, channel_id, user_id) ==
    IF existing # None
    THEN rows
    ELSE rows \cup {[_id |-> NewSubId(rows, channel_id, user_id),
                     channel_id |-> channel_id, subscriber_id |-> user_id]}

\* The delete / insert of the toggle.
ToggleSub(rows, existing, channel_id, user_id) ==
    IF existing # None
    THEN {d \in rows : d._id # existing._id}
    ELSE rows \cup {[_id |-> NewSubId(rows, channel_id, user_id),
                     channel_id |-> channel_id, subscriber_id |-> user_id]}

\* count_documents({"channel_id": channel_id})
CountSubs(rows, channel_id) == Cardinality({d \in rows : d.channel_id = channel_id})

\* SetSubscriberCount with the filter left out: every user gets the count.
SetSubscriberCountAll(users, oid, n) ==
    {[d EXCEPT !.subscriber_count = n] : d \in users}

\* update_one({"_id": oid}, {"$set": {"subscriber_count": n}})
SetSubscriberCount(users, oid, n) ==
    {IF d._id = oid THEN [d EXCEPT !.subscriber_count = n] ELSE d : d \in users}

subscribe_channel(db, channel_id, x_user_id) ==
    LET auth == get_current_user_id(db, x_user_id)
    IN  IF auth.status # 200 THEN Result(db, auth.status, 0)
        ELSE IF IsSelf(channel_id, auth.user_id) THEN Result(db, 400, 0)
        ELSE IF ~ValidId(channel_id) THEN Result(db, 400, 0)
        ELSE IF FindOne({d \in db.user : ById(channel_id, d)}) = None THEN Result(db, 404, 0)
        ELSE LET user_id == auth.user_id
                 existing == FindOne({d \in db.subscription : SubMatch(channel_id, user_id, d)})
                 rows == ToggleSub(db.subscription, existing, channel_id, user_id)
                 sub_count == CountSubs(rows, channel_id)
             IN  Result([db EXCEPT !.subscription = rows,
                                   !.user = SetSubscriberCount(@, objid(channel_id), sub_count)],
                        200, sub_count)

\* --------------------------------------------------------------- get_video
\* IncViews as a read-modify-write: the count fetched earlier, plus one.
IncViewsStale(videos, v) ==
    {IF d._id = v._id THEN [d EXCEPT !.views_count = v.views_count + 1, !.updated_at = utcnow]
                      ELSE d : d \in videos}

\* update_one({"_id": v["_id"]}, {"$inc": {"views_count": 1}, "$set":
\* {"updated_at": utcnow()}}): the store adds one to the count the document
\* has when the update runs.
IncViews(videos, v) ==
    {IF d._id = v._id THEN [d EXCEPT !.views_count = @ + 1, !.updated_at = utcnow]
                      ELSE d : d \in videos}

SetCall(i, pc, status, v) ==
    calls' = [calls EXCEPT ![i] = [pc |-> pc, status |-> status, v |-> v]]

\* v = find_one({"_id": objid(video_id)}); 400 or 404 end the request.
GvFind(i) ==
    /\ calls[i].pc = "idle"
    /\ \A j \in 1..(i - 1) : calls[j].pc # "idle"
    /\ \E video_id \in VideoIds :
          IF ~ValidId(video_id) THEN SetCall(i, "done", 400, None)
          ELSE LET v == FindOne({d \in video : ById(video_id, d)})
               IN  IF v = None THEN SetCall(i, "done", 404, None)
                   ELSE SetCall(i, "inc", 0, v)
    /\ UNCHANGED <<user, video, comment, like, subscription, like_calls, clock>>

\* the increment of views_count
GvInc(i) ==
    /\ calls[i].pc = "inc"
    /\ video' = IncViews(video, calls[i].v)
    /\ SetCall(i, "refetch", 0, calls[i].v)
    /\ UNCHANGED <<user, comment, like, subscription, like_calls, clock>>

\* v = find_one({"_id": v["_id"]})
GvRefetch(i) ==
    /\ calls[i].pc = "refetch"
    /\ SetCall(i, "join", 0, FindOne({d \in video : d._id = calls[i].v._id}))
    /\ UNCHANGED <<user, video, comment, like, subscription, like_calls, clock>>

\* the lookup of the owner, and the response
GvJoin(i) ==
    /\ calls[i].pc = "join"
    /\ SetCall(i, "done", 200, calls[i].v)
    /\ UNCHANGED <<user, video, comment, like, subscription, like_calls, clock>>

GetVideo == \E i \in 1..MaxGets : GvFind(i) \/ GvInc(i) \/ GvRefetch(i) \/ GvJoin(i)

\* ------------------------------------------------------- read aggregators
\* The orders a cursor sorted by created_at, newest first, may deliver the
\* documents in: the store leaves the order of equal times open.
Sort(docs) ==
    {s \in [1..Cardinality(docs) -> docs] :
        /\ \A d \in docs : \E i \in 1..Cardinality(docs) : s[i] = d
        /\ \A i \in 1..(Cardinality(docs) - 1) : s[i].created_at >= s[i + 1].created_at}

\* cursor.limit(n): the first |n| documents; all of them when n is 0.
Limit(s, n) ==
    IF n = 0 THEN s
    ELSE LET m == IF n < 0 THEN 0 - n ELSE n
         IN  [i \in 1..(IF m < Len(s) THEN m ELSE Len(s)) |-> s[i]]

\* The limit query parameter: any integer.
Limits == (0 - 1)..(MaxPosts + 1)

\* [to_str_id(v) for v in cursor]
StrIds(s) == [i \in 1..Len(s) |-> to_str_id(s[i])]

\* A listing handler answers with one of the orders the cursor may deliver.
list_videos(db, limit) ==
    {Reply(db, 200, 0, StrIds(Limit(s, limit))) : s \in Sort(db.video)}

feed(db, limit) ==
    {Reply(db, 200, 0, StrIds(Limit(s, limit))) : s \in Sort(db.video)}

\* get_video with the view counted by an upsert before the lookup of the
\* video: an id of no video gets a record.
get_video_upsert(db, video_id) ==
    IF ~ValidId(video_id) THEN HTTPException(db, 400, "Invalid id format")
    ELSE LET v == FindOne({d \in db.video : ById(video_id, d)})
             videos == IF v # None THEN IncViews(db.video, v)
                       ELSE db.video \cup {[_id |-> objid(video_id), user_id |-> NoHeader,
                                            views_count |-> 1, likes_count |-> 0,
                                            created_at |-> utcnow, updated_at |-> utcnow]}
             w == FindOne({d \in videos : ById(video_id, d)})
             owner == FindOne({d \in db.user : ById(w.user_id, d)})
         IN  Reply([db EXCEPT !.video = videos], 200, w.views_count,
                   ("channel" :> to_str_id(owner)) @@ to_str_id(w))

\* get_video run without another request between its store operations.
get_video(db, video_id) ==
    IF ~ValidId(video_id) THEN HTTPException(db, 400, "Invalid id format")
    ELSE LET v == FindOne({d \in db.video : ById(video_id, d)})
         IN  IF v = None THEN HTTPException(db, 404, "Video not found")
             ELSE LET videos == IncViews(db.video, v)
                      w == FindOne({d \in videos : d._id = v._id})
                      owner == FindOne({d \in db.user : ById(w.user_id, d)})
                  IN  Reply([db EXCEPT !.video = videos], 200, w.views_count,
                            ("channel" :> to_str_id(owner)) @@ to_str_id(w))

\* The comments of a video id string, newest first, each with its author.
list_comments(db, video_id, limit) ==
    LET Item(c) == ("user" :> to_str_id(FindOne({d \in db.user : ById(c.user_id, d)})))
                   @@ to_str_id(c)
    IN  {Reply(db, 200, 0, [i \in 1..Len(Limit(s, limit)) |-> Item(s[i])]) :
            s \in Sort({d \in db.comment : d.video_id = video_id})}

get_channel(db, channel_id) ==
    IF ~ValidId(channel_id) THEN {HTTPException(db, 400, "Invalid id format")}
    ELSE LET found == FindOne({d \in db.user : ById(channel_id, d)})
             sub_count == CountSubs(db.subscription, channel_id)
         IN  IF found = None THEN {HTTPException(db, 404, "Channel not found")}
             ELSE {Reply(db, 200, sub_count,
                         ("subscriber_count" :> sub_count) @@ ("videos" :> StrIds(s))
                         @@ to_str_id(found)) :
                      s \in Sort({d \in db.video : d.user_id = channel_id})}

\* ----------------------------------------------- like_video, step by step
\* A like_video request between its store operations: its arguments, the row
\* its lookup found, and the count it took.
IdleLike == [pc |-> "idle", status |-> 0, video_id |-> NoHeader, user_id |-> NoHeader,
             value |-> 0, existing |-> None, likes_count |-> 0]
DoneLike(status) == [IdleLike EXCEPT !.pc = "done", !.status = status]

SetLike(i, c) == like_calls' = [like_calls EXCEPT ![i] = c]

\* The ids of clients that send them as login and upload returned them.
RaceHeaders == {StrOf(o) : o \in UserOids}
RaceVideoIds == {StrOf(o) : o \in VideoOids} \cup {Hex(UnknownOid, FALSE)}

\* The rows that requests in flight still hold from their lookup: insert_one
\* gives a new row an ObjectId that none of them has.
HeldRows == {like_calls[j].existing : j \in 1..MaxLikeCalls} \ {None}

\* the identity resolver and the lookup of the video: 401, 400 or 404 end
\* the request
LkStart(i) ==
    /\ like_calls[i].pc = "idle"
    /\ \A j \in 1..(i - 1) : like_calls[j].pc # "idle"
    /\ \E video_id \in RaceVideoIds, value \in Values, x_user_id \in RaceHeaders :
          LET auth == get_current_user_id(Db, x_user_id)
          IN  IF auth.status # 200 THEN SetLike(i, DoneLike(auth.status))
              ELSE IF ~ValidId(video_id) THEN SetLike(i, DoneLike(400))
              ELSE IF FindOne({d \in video : ById(video_id, d)}) = None
                   THEN SetLike(i, DoneLike(404))
              ELSE SetLike(i, [IdleLike EXCEPT !.pc = "find", !.video_id = video_id,
                                               !.user_id = auth.user_id, !.value = value])
    /\ UNCHANGED <<user, video, comment, like, subscription, calls, clock>>

\* existing = find_one({"video_id": video_id, "user_id": user_id})
LkFind(i) ==
    /\ like_calls[i].pc = "find"
    /\ LET c == like_calls[i]
       IN  SetLike(i, [c EXCEPT !.pc = "write",
                                !.existing = FindOne({d \in like : LikeMatch(c.video_id, c.user_id, d)})])
    /\ UNCHANGED <<user, video, comment, like, subscription, calls, clock>>

\* delete_one, update_one or insert_one, as the row found tells
LkWrite(i) ==
    /\ like_calls[i].pc = "write"
    /\ LET c == like_calls[i]
       IN  /\ like' = IF c.existing # None
                      THEN IF c.existing.value = c.value
                           THEN {d \in like : d._id # c.existing._id}
                           ELSE {IF d._id = c.existing._id THEN [d EXCEPT !.value = c.value] ELSE d :
                                    d \in like}
                      ELSE like \cup {[_id |-> NewLikeId(like \cup HeldRows, c.video_id, c.user_id),
                                       video_id |-> c.video_id, user_id |-> c.user_id,
                                       value |-> c.value]}
           /\ SetLike(i, [c EXCEPT !.pc = "count", !.existing = None])
    /\ UNCHANGED <<user, video, comment, subscription, calls, clock>>

\* likes_count = count_documents({"video_id": video_id, "value": 1})
LkCount(i) ==
    /\ like_calls[i].pc = "count"
    /\ LET c == like_calls[i]
       IN  SetLike(i, [c EXCEPT !.pc = "set", !.likes_count = CountLikes(like, c.video_id)])
    /\ UNCHANGED <<user, video, comment, like, subscription, calls, clock>>

\* update_one({"_id": objid(video_id)}, {"$set": {"likes_count": likes_count}})
LkSet(i) ==
    /\ like_calls[i].pc = "set"
    /\ LET c == like_calls[i]
       IN  /\ video' = SetLikesCount(video, objid(c.video_id), c.likes_count)
           /\ SetLike(i, DoneLike(200))
    /\ UNCHANGED <<user, comment, like, subscription, calls, clock>>

LikeSteps == \E i \in 1..MaxLikeCalls : LkStart(i) \/ LkFind(i) \/ LkWrite(i) \/ LkCount(i) \/ LkSet(i)

\* ----------------------------------------------------------------- actions
\* A handler's action: the store becomes the one the handler returns.
Commit(r) ==
    /\ user' = r.db.user
    /\ video' = r.db.video
    /\ comment' = r.db.comment
    /\ like' = r.db.like
    /\ subscription' = r.db.subscription
    /\ UNCHANGED <<calls, like_calls, clock>>

Register ==
    \E e \in RawEmails, n \in Usernames, p \in Passwords : Commit(register(Db, e, n, p))

Login ==
    \E e \in RawEmails, p \in LoginPasswords : Commit(login(Db, e, p))

\* get_video, the whole request in one step.
ViewVideo ==
    \E p \in VideoIds :
        LET r == get_video(Db, p)
        IN  /\ \A d \in r.db.video : d.views_count <= MaxGets
            /\ Commit(r)

ListVideos == \E l \in Limits : \E r \in list_videos(Db, l) : Commit(r)

Feed == \E l \in Limits : \E r \in feed(Db, l) : Commit(r)

ListComments == \E p \in VideoIds, l \in Limits : \E r \in list_comments(Db, p, l) : Commit(r)

GetChannel == \E c \in ChannelIds : \E r \in get_channel(Db, c) : Commit(r)

\* Time passes.
Tick ==
    /\ clock < MaxTime
    /\ clock' = clock + 1
    /\ UNCHANGED <<user, video, comment, like, subscription, calls, like_calls>>

\* Uploads for the listings: more videos than one.
Post ==
    /\ Cardinality(video) < MaxPosts
    /\ \E h \in {StrOf(o) : o \in UserOids} : Commit(upload_video(Db, h))

\* Registration by clients that each have an address and a name of their own.
Profiles == {<<[local |-> "a", upper |-> FALSE], "alice">>, <<[local |-> "b", upper |-> FALSE], "bob">>}
Signup == \E f \in Profiles, p \in Passwords : Commit(register(Db, f[1], f[2], p))

UploadVideo ==
    /\ Cardinality(video) < MaxVideos
    /\ \E h \in Headers : Commit(upload_video(Db, h))

\* Uploads by clients that send their id as login returned it.
Publish ==
    /\ Cardinality(video) < MaxVideos
    /\ \E h \in {StrOf(o) : o \in UserOids} : Commit(upload_video(Db, h))

AddComment ==
    /\ Cardinality(comment) < MaxComments
    /\ \E p \in VideoIds, t \in Texts, h \in Headers : Commit(add_comment(Db, p, t, h))

LikeVideo ==
    \E p \in VideoIds, v \in Values, h \in Headers :
        LET r == like_video(Db, p, v, h)
        IN  /\ Cardinality(r.db.like) <= MaxLikes
            /\ Commit(r)

SubscribeChannel ==
    \E c \in ChannelIds, h \in Headers :
        LET r == subscribe_channel(Db, c, h)
        IN  /\ Cardinality(r.db.subscription) <= MaxSubs
            /\ Commit(r)

\* ------------------------------------------------------------------ system
Init ==
    /\ user = {}
    /\ video = {}
    /\ comment = {}
    /\ like = {}
    /\ subscription = {}
    /\ calls = [i \in 1..MaxGets |-> [pc |-> "idle", status |-> 0, v |-> None]]
    /\ like_calls = [i \in 1..MaxLikeCalls |-> IdleLike]
    /\ clock = 0

\* Likes: users sign up, publish, and like.
NextLike == Signup \/ Publish \/ LikeVideo
SpecLike == Init /\ [][NextLike]_vars

\* Subscriptions: users sign up and subscribe.
NextSub == Signup \/ SubscribeChannel
SpecSub == Init /\ [][NextSub]_vars

\* Accounts and what they post: every registration, upload and comment request.
NextReg == Register \/ Login \/ UploadVideo \/ AddComment
SpecReg == Init /\ [][NextReg]_vars

\* Views: users sign up and publish, and get_video requests interleave.
NextViews == Signup \/ Publish \/ GetVideo
SpecViews == Init /\ [][NextViews]_vars

\* Profiles: accounts, what they post, and the requests that show profiles.
NextProfile == Register \/ Login \/ UploadVideo \/ AddComment \/ ViewVideo \/ ListComments \/ GetChannel
SpecProfile == Init /\ [][NextProfile]_vars

\* Listings: users sign up and post while time passes, and callers list.
NextList == Signup \/ Post \/ Tick \/ ListVideos \/ Feed
SpecList == Init /\ [][NextList]_vars

\* Video detail: users sign up and publish, callers fetch videos, time passes.
NextDetail == Signup \/ Publish \/ ViewVideo \/ Tick
SpecDetail == Init /\ [][NextDetail]_vars

\* Channels: users sign up, publish and subscribe, and callers fetch channels.
NextChannel == Signup \/ Publish \/ SubscribeChannel \/ GetChannel
SpecChannel == Init /\ [][NextChannel]_vars

\* Likes that race: users sign up and publish, and like_video requests
\* interleave at their store operations.
NextRace == Signup \/ Publish \/ LikeSteps
SpecRace == Init /\ [][NextRace]_vars

\* The whole backend: every handler, with every input.
Next ==
    \/ Register \/ Login \/ UploadVideo \/ AddComment \/ LikeVideo \/ SubscribeChannel
    \/ GetVideo \/ ListVideos \/ Feed \/ ListComments \/ GetChannel \/ Tick
Spec == Init /\ [][Next]_vars

\* ================================================================== claims
\* The stored counters of a store, by the id string of a request.
LikesCountOf(db, video_id) == FindOne({d \in db.video : ById(video_id, d)}).likes_count
SubscriberCountOf(db, channel_id) == FindOne({d \in db.user : ById(channel_id, d)}).subscriber_count

\* The Like rows of a (video, user) pair, and the value-1 rows of a video,
\* whatever the spelling of the ids they are stored under.
LikesOfPair(db, v, u) == {d \in db.like : objid(d.video_id) = v /\ objid(d.user_id) = u}
PositiveLikes(db, v) == {d \in db.like : objid(d.video_id) = v /\ d.value = 1}

\* C1: the like collection never holds two Like rows of the same video and
\* the same user.
C1_OneLikePerPair ==
    \A a, b \in like :
        (objid(a.video_id) = objid(b.video_id) /\ objid(a.user_id) = objid(b.user_id)) => a = b

\* C2: after a successful like_video on a video, the likes_count stored on
\* the video and the one returned both equal the number of the video's Like
\* rows of value 1.
C2_LikesCountFresh ==
    \A p \in VideoIds, v \in Values, h \in Headers :
        LET r == like_video(Db, p, v, h)
        IN  r.status = 200 =>
                /\ LikesCountOf(r.db, p) = r.ret
                /\ r.ret = Cardinality(PositiveLikes(r.db, objid(p)))

\* Two consecutive like_video requests with the same ids and values 1 then w.
LikeThenLike(p, h, w) ==
    LET r1 == like_video(Db, p, 1, h)
    IN  [first |-> r1, second |-> like_video(r1.db, p, w, h)]
BothOk(rr) == rr.first.status = 200 /\ rr.second.status = 200

C4_LikeThenDislike ==
    \A p \in VideoIds, h \in Headers :
        LET rr == LikeThenLike(p, h, -1)
            mine == LikesOfPair(rr.second.db, objid(p), objid(h))
        IN  BothOk(rr) =>
                /\ Cardinality(mine) = 1
                /\ \A d \in mine : d.value = -1
                /\ LikesCountOf(rr.second.db, p) =
                       Cardinality({d \in PositiveLikes(rr.second.db, objid(p)) :
                                       objid(d.user_id) # objid(h)})

\* Two consecutive subscribe_channel requests with the same ids.
SubThenSub(c, h) ==
    LET r1 == subscribe_channel(Db, c, h)
    IN  [first |-> r1, second |-> subscribe_channel(r1.db, c, h)]

C6_SelfSubscribeRejected ==
    \A c \in ChannelIds, h \in Headers :
        LET r == subscribe_channel(Db, c, h)
        IN  (get_current_user_id(Db, h).status = 200 /\ ValidId(c) /\ objid(c) = objid(h)) =>
                /\ r.status = 400
                /\ r.db.subscription = subscription
                /\ r.db.user = user

\* C7: the subscription collection never holds two rows of the same channel
\* and subscriber, nor a row whose channel and subscriber are one user.
C7_SubscriptionRows ==
    /\ \A a, b \in subscription :
          (/\ objid(a.channel_id) = objid(b.channel_id)
           /\ objid(a.subscriber_id) = objid(b.subscriber_id)) => a = b
    /\ \A a \in subscription : objid(a.channel_id) # objid(a.subscriber_id)

\* The get_video requests that have incremented the views_count of video v.
Incremented(v) ==
    {i \in 1..MaxGets : /\ calls[i].v._id = v
                        /\ \/ calls[i].pc \in {"refetch", "join"}
                           \/ calls[i].pc = "done" /\ calls[i].status = 200}
Answered(v) == {i \in 1..MaxGets : calls[i].pc = "done" /\ calls[i].status = 200 /\ calls[i].v._id = v}
Quiet == \A i \in 1..MaxGets : calls[i].pc \in {"idle", "done"}

\* Every video's views_count is the number of get_video requests that have
\* incremented it; once no request is in flight, the number answered 200.
ViewsCounted ==
    \A d \in video :
        /\ d.views_count = Cardinality(Incremented(d._id))
        /\ Quiet => d.views_count = Cardinality(Answered(d._id))

\* A step changes no views_count but by adding one to it.
ViewsStep ==
    \A d \in video : \E e \in video' :
        e._id = d._id /\ e.views_count \in {d.views_count, d.views_count + 1}

\* C8: each successful get_video adds exactly 1 to the video's views_count,
\* also when the store operations of several requests interleave: after N
\* requests have completed the count is N higher; it never decreases.
C8_ViewsExact == []ViewsCounted /\ [][ViewsStep]_vars

\* C8, its case: two get_video requests on one video had both found it before
\* either incremented it, both have been answered, and views_count is 2.
C8_Witness ==
    \E i, j \in 1..MaxGets :
        /\ i # j
        /\ calls[i].pc = "done" /\ calls[i].status = 200
        /\ calls[j].pc = "done" /\ calls[j].status = 200
        /\ calls[i].v._id = calls[j].v._id
        /\ calls[i].v.views_count = 2 /\ calls[j].v.views_count = 2
        /\ \E d \in video : d._id = calls[i].v._id /\ d.views_count = 2

\* C9: upload_video, add_comment, like_video and subscribe_channel answer 401
\* and change no collection whenever the identity header is absent or is a
\* string that names no existing user.
NamesUser(db, x_user_id) == ValidId(x_user_id) /\ \E d \in db.user : d._id = objid(x_user_id)
Denied(r) == r.status = 401 /\ r.db = Db
C9_Unauthenticated401 ==
    \A h \in Headers :
        ~NamesUser(Db, h) =>
            /\ Denied(upload_video(Db, h))
            /\ \A p \in VideoIds, t \in Texts : Denied(add_comment(Db, p, t, h))
            /\ \A p \in VideoIds, v \in Values : Denied(like_video(Db, p, v, h))
            /\ \A c \in ChannelIds : Denied(subscribe_channel(Db, c, h))

\* C10: a register request with the e-mail or the username of an existing
\* user is answered 400 and leaves the users as they are; no two users share
\* an e-mail, no two share a username.
C10_RegisterUnique ==
    /\ \A e \in RawEmails, n \in Usernames, p \in Passwords :
          (\E d \in user : d.email = e \/ d.username = n) =>
              (register(Db, e, n, p).status = 400 /\ register(Db, e, n, p).db = Db)
    /\ \A a, b \in user : (a.email = b.email \/ a.username = b.username) => a = b

\* C10, its case: two users are registered, and a request with the e-mail of
\* one and a request with the username of the other are both rejected.
C10_Witness ==
    /\ Cardinality(user) = 2
    /\ \E e \in RawEmails, n \in Usernames, p \in Passwords :
          /\ \E d \in user : d.email = e /\ d.username # n
          /\ register(Db, e, n, p).status = 400
    /\ \E e \in RawEmails, n \in Usernames, p \in Passwords :
          /\ \E d \in user : d.username = n /\ d.email # EmailStr(e)
          /\ register(Db, e, n, p).status = 400

\* The response to a login request: what the caller sees of it.
Response(r) == [status |-> r.status, body |-> r.body]
UnknownEmail(e) == \A d \in user : d.email # EmailStr(e)
WrongPassword(e, p) == \E d \in user : d.email = EmailStr(e) /\ ~verify_password(p, d.password_hash)

\* In one store, the two kinds of failed login get the same response.
LoginFailuresAlike ==
    \A e1, e2 \in RawEmails, p1, p2 \in LoginPasswords :
        (UnknownEmail(e1) /\ WrongPassword(e2, p2)) =>
            Response(login(Db, e1, p1)) = Response(login(Db, e2, p2))

\* Across two stores, the one before a step and the one after it, likewise.
LoginFailuresAlikeNext ==
    \A e1, e2 \in RawEmails, p1, p2 \in LoginPasswords :
        (UnknownEmail(e1) /\ WrongPassword(e2, p2)') =>
            Response(login(Db, e1, p1)) = Response(login(Db, e2, p2))'

\* C11: a login that fails because the e-mail is unknown and a login that
\* fails because the password does not verify get the same response (status
\* and message), in one store and across two stores.
C11_LoginFailuresAlike == []LoginFailuresAlike /\ [][LoginFailuresAlikeNext]_vars

\* C11, its case: one e-mail is registered and another is not, and a login
\* with the first and a wrong password and a login with the second both fail.
C11_Witness ==
    \E e1, e2 \in RawEmails, p \in LoginPasswords :
        /\ UnknownEmail(e1)
        /\ WrongPassword(e2, p)
        /\ login(Db, e1, p).status # 200
        /\ login(Db, e2, p).status # 200
        /\ \E q \in LoginPasswords : login(Db, e2, q).status = 200

\* A profile as a response shows it: without the password hash.
Hides(profile) == "password_hash" \notin DOMAIN profile

\* C12: no response carries a user's password hash: not the profile that
\* register and login return, nor the profile that get_video (channel),
\* list_comments (user) and get_channel embed.
C12_NoPasswordHash ==
    /\ \A e \in RawEmails, n \in Usernames, p \in Passwords :
          register(Db, e, n, p).status = 200 => Hides(register(Db, e, n, p).body)
    /\ \A e \in RawEmails, p \in LoginPasswords :
          login(Db, e, p).status = 200 => Hides(login(Db, e, p).body)
    /\ \A p \in VideoIds :
          get_video(Db, p).status = 200 =>
              (Hides(get_video(Db, p).body) /\ Hides(get_video(Db, p).body.channel))
    /\ \A p \in VideoIds, l \in Limits : \A r \in list_comments(Db, p, l) :
          \A i \in 1..Len(r.body) : Hides(r.body[i]) /\ Hides(r.body[i].user)
    /\ \A c \in ChannelIds : \A r \in get_channel(Db, c) :
          r.status = 200 => Hides(r.body)

\* What a listing of the videos must be for the limit it was asked with: at
\* most limit items (none for a limit below 1); newest first; no video left out is newer than one that
\* is listed; and short of limit only when every video is listed.
Listed(body, limit) ==
    /\ Len(body) <= (IF limit < 0 THEN 0 ELSE limit)
    /\ \A i, j \in 1..Len(body) : i < j => body[i].created_at.iso >= body[j].created_at.iso
    /\ \A d \in video :
          (\A i \in 1..Len(body) : body[i].id # StrOf(d._id)) =>
              \A i \in 1..Len(body) : body[i].created_at.iso >= d.created_at
    /\ Len(body) < limit => \A d \in video : \E i \in 1..Len(body) : body[i].id = StrOf(d._id)

\* C13: for every integer limit, list_videos and feed return at most limit
\* videos, the most recently created ones, in descending created_at order.
C13_ListingsBounded ==
    \A l \in Limits :
        /\ \A r \in list_videos(Db, l) : Listed(r.body, l)
        /\ \A r \in feed(Db, l) : Listed(r.body, l)

\* A well-formed id of no video.
Missing(video_id) == ValidId(video_id) /\ \A d \in video : d._id # objid(video_id)

\* C14: get_video with a well-formed id that matches no video is answered 404
\* and leaves the store as it is: no views_count, no updated_at changes, no
\* record is created.
C14_MissingVideoNotFound ==
    \A p \in VideoIds :
        Missing(p) => (get_video(Db, p).status = 404 /\ get_video(Db, p).db = Db)

\* C14, its case: a video that has been viewed and was last updated before
\* now is in the store, and a get_video with the id of no video gets 404.
C14_Witness ==
    /\ \E d \in video : d.views_count >= 1 /\ d.updated_at < clock
    /\ \E p \in VideoIds : Missing(p) /\ get_video(Db, p).status = 404

\* No like_video request is between two of its store operations.
LikesQuiet == \A i \in 1..MaxLikeCalls : like_calls[i].pc \in {"idle", "done"}

\* C15: once the like_video requests that interleaved at their store
\* operations have all completed, every video's stored likes_count is the
\* number of its Like rows of value 1.
C15_NoCounterDrift ==
    LikesQuiet => \A d \in video : d.likes_count = Cardinality(PositiveLikes(Db, d._id))

\* C16: while like_video requests of one user on one video interleave at
\* their store operations, no state holds more than one Like row of that
\* video and user.
C16_OneRowUnderRace ==
    \A v \in VideoOids, u \in UserOids : Cardinality(LikesOfPair(Db, v, u)) <= 1

\* Every user of this store is in the store db with the subscriber_count it
\* has here, but for the user with _id oid.
CountsKeptBut(db, oid) ==
    \A d \in user : d._id # oid =>
        \E e \in db.user : e._id = d._id /\ e.subscriber_count = d.subscriber_count
CountsKept(db) == CountsKeptBut(db, UnknownOid)

\* C17: a user's subscriber_count is 0 at registration, and no request
\* changes it but a subscribe_channel on that user's channel: register, login,
\* upload_video, get_video, add_comment, like_video, get_channel and
\* subscribe_channel on another channel leave it as it is.
C17_SubscriberCountFrame ==
    /\ \A e \in RawEmails, n \in Usernames, p \in Passwords :
          LET r == register(Db, e, n, p)
          IN  CountsKept(r.db) /\ \A d \in r.db.user \ user : d.subscriber_count = 0
    /\ \A e \in RawEmails, p \in LoginPasswords : CountsKept(login(Db, e, p).db)
    /\ \A h \in Headers : CountsKept(upload_video(Db, h).db)
    /\ \A p \in VideoIds : CountsKept(get_video(Db, p).db)
    /\ \A p \in VideoIds, t \in Texts, h \in Headers : CountsKept(add_comment(Db, p, t, h).db)
    /\ \A p \in VideoIds, v \in Values, h \in Headers : CountsKept(like_video(Db, p, v, h).db)
    /\ \A c \in ChannelIds : \A r \in get_channel(Db, c) : CountsKept(r.db)
    /\ \A c \in ChannelIds, h \in Headers :
          CountsKeptBut(subscribe_channel(Db, c, h).db, objid(c))

\* C17, its case: one user has a subscriber and another has none, a video is
\* there to view, like and comment, and a subscribe_channel request changes
\* the subscriber_count of its channel.
C17_Witness ==
    /\ \E a, b \in user : a.subscriber_count = 1 /\ b.subscriber_count = 0
    /\ \E p \in VideoIds, v \in Values, h \in Headers : like_video(Db, p, v, h).status = 200
    /\ \E p \in VideoIds : get_video(Db, p).status = 200
    /\ \E c \in ChannelIds, h \in Headers :
          LET r == subscribe_channel(Db, c, h)
          IN  r.status = 200 /\ SubscriberCountOf(r.db, c) # SubscriberCountOf(Db, c)

\* The user a header resolves to, and the video or channel a path id finds.
ResolvesTo(h, u) == get_current_user_id(Db, h).status = 200 /\ objid(h) = u
Finds(id_str, oid) == ValidId(id_str) /\ objid(id_str) = oid

\* C18: identity tokens that resolve to the same user, and path ids that find
\* the same video or channel, are the same entity to the handlers: the
\* resolver returns the same user_id for them, and like_video,
\* subscribe_channel and add_comment leave the same store and return the same
\* count whichever of them the request carries.
C18_CanonicalIds ==
    \A u \in UserOids, h1, h2 \in Headers :
        (ResolvesTo(h1, u) /\ ResolvesTo(h2, u)) =>
            /\ get_current_user_id(Db, h1).user_id = get_current_user_id(Db, h2).user_id
            /\ \A o \in VideoOids, p1, p2 \in VideoIds, v \in Values :
                  (Finds(p1, o) /\ Finds(p2, o)) =>
                      /\ like_video(Db, p1, v, h1).db = like_video(Db, p2, v, h2).db
                      /\ like_video(Db, p1, v, h1).ret = like_video(Db, p2, v, h2).ret
                      /\ \A t \in Texts : add_comment(Db, p1, t, h1).db = add_comment(Db, p2, t, h2).db
            /\ \A o \in UserOids, c1, c2 \in ChannelIds :
                  (Finds(c1, o) /\ Finds(c2, o)) =>
                      /\ subscribe_channel(Db, c1, h1).status = subscribe_channel(Db, c2, h2).status
                      /\ subscribe_channel(Db, c1, h1).db = subscribe_channel(Db, c2, h2).db
                      /\ subscribe_channel(Db, c1, h1).ret = subscribe_channel(Db, c2, h2).ret

\* The Like rows of the other (video, user) pairs than (v, u).
OtherLikes(db, v, u) == {d \in db.like : ~(objid(d.video_id) = v /\ objid(d.user_id) = u)}

\* Every video of this store is in the store db unchanged, likes_count aside
\* for the video with _id v.
VideosKeptBut(db, v) ==
    /\ \A d \in video : \E e \in db.video :
          IF d._id = v THEN e = [d EXCEPT !.likes_count = e.likes_count] ELSE e = d
    /\ Cardinality(db.video) = Cardinality(video)

====
